---- MODULE Spec2Model ----
(***************************************************************************)
(* UploadScreen (UploadPDFScreen.js): the multi-file upload handler, the   *)
(* background-processing registry (activeUploads), the 2-second status     *)
(* poller armed by useEffect and the chunk aggregate (processedChunks).    *)
(*                                                                         *)
(* One action is one synchronous segment of a handler: the code between    *)
(* two awaits, with the re-render and the effect run it causes.  The       *)
(* backend (POST /upload_doc/, GET /upload_status, GET /final_chunks) is   *)
(* the environment: it answers or fails each request, and finishes jobs.   *)
(***************************************************************************)
EXTENDS Naturals, Integers, Sequences, FiniteSets, Bags, TLC

\* ------------------------------------------------------------------ bounds
MaxFiles == 2      \* distinct file uris the picker can return
MaxJobs  == 2      \* upload_ids the backend hands out in one run
MaxTicks == 2      \* poll ticks in flight at the same time
FileSize == 3      \* bytes of one file's request body (progress events)

VARIABLES
  files,               \* useState files: the selection list (file uris)
  uploading,           \* useState uploading
  uploadProgress,      \* useState uploadProgress, a fraction <<num, den>>
  uploadSuccess,       \* useState uploadSuccess: "null" | "true" | "false"
  processedChunks,     \* useState processedChunks: the aggregate
  activeUploads,       \* useState activeUploads: the active set, in order
  processingStatuses,  \* useState processingStatuses: upload_id -> status
  timers,              \* armed setInterval timers, each with its closure's activeUploads
  ticks,               \* bag of interval callbacks suspended at an await
  up,                  \* the uploadFiles invocation in progress
  backend,             \* the status the backend last reported for each upload_id
  nextId,              \* next upload_id the backend hands out
  mounted,             \* the component is mounted
  alert,               \* Alert.alert of the last segment ("none": it raised none)
  console              \* console.error / console.log of the last segment

vars == <<files, uploading, uploadProgress, uploadSuccess, processedChunks,
          activeUploads, processingStatuses, timers, ticks, up, backend,
          nextId, mounted, alert, console>>

\* ------------------------------------------------------------- data shapes
FileUris == 1..MaxFiles
JobIds == 1..MaxJobs

\* UploadResponse.status is a string: the poller compares it with "PROCESSING"
UploadStatuses == {"PROCESSING", "QUEUED"}

\* ProcessingStatus.status
PollStatuses == {"PROCESSING", "COMPLETED", "FAILED"}

\* UploadResponse.preview_chunks of a job
PreviewChunks(id) == << [job |-> id, kind |-> "preview"] >>

\* the chunks GET /final_chunks/{id} returns
FinalChunks(id) == << [job |-> id, kind |-> "final"] >>

\* what DocumentPicker.pick can resolve to: a non-empty list of distinct files
Selections ==
  { s \in UNION { [1..n -> FileUris] : n \in 1..MaxFiles } :
      \A a, b \in 1..Len(s) : a < b => s[a] < s[b] }

Ids(seq) == { seq[k].upload_id : k \in 1..Len(seq) }

\* uploadFiles' locals and its request: batch is the files the invocation
\* closed over, sent/total the last progress event of the request in flight,
\* posted the files POSTed so far, inflight the POSTs not yet answered
IdleUpload == [pc |-> "idle", batch |-> <<>>, i |-> 0, newUploads |-> <<>>,
               sent |-> 0, total |-> 0, posted |-> <<>>, inflight |-> 0]

\* the segment wrote nothing to the console
NoLog == [msg |-> "none", path |-> "none", id |-> 0]

\* console.error("Error polling status:", error): the AxiosError names the
\* request that was rejected (error.config.url)
PollErrorLog(path, id) == [msg |-> "Error polling status:", path |-> path, id |-> id]

\* console.error("Upload error:", err)
UploadErrorLog == [msg |-> "Upload error:", path |-> "upload_doc", id |-> 0]

\* console.log("User cancelled picker")
CancelLog == [msg |-> "User cancelled picker", path |-> "none", id |-> 0]

\* ---------------------------------------------------------- pure helpers
\* mutant: the filter's test inverted (===), keeping only the job to remove
RemoveUploadInverted(prev, id) == SelectSeq(prev, LAMBDA u : u.upload_id = id)

\* prev.filter(u => u.upload_id !== id)
RemoveUpload(prev, id) == SelectSeq(prev, LAMBDA u : u.upload_id # id)

\* mutant: the filter's test inverted, keeping only the file to remove
RemoveUriInverted(fs, uri) == SelectSeq(fs, LAMBDA f : f = uri)

\* files.filter(file => file.uri !== uri)
RemoveUri(fs, uri) == SelectSeq(fs, LAMBDA f : f # uri)

\* new Map(): no job has a cached status
NoStatuses == [id \in JobIds |-> "none"]

\* mutant: new Map().set(id, status), the other entries are lost
SetStatusFresh(prev, id, status) == [NoStatuses EXCEPT ![id] = status]

\* new Map(prev.set(id, status))
SetStatus(prev, id, status) == [prev EXCEPT ![id] = status]

\* the for loop's next stop: the first entry at or after `from` whose
\* upload.status === "PROCESSING"; 0 when the loop runs off the end
NextProcessing(snap, from) ==
  LET hits == { k \in from..Len(snap) : snap[k].status = "PROCESSING" }
  IN IF hits = {} THEN 0 ELSE CHOOSE k \in hits : \A h \in hits : k <= h

\* the callback after the body for snap[idx] completed: on to the next entry
TickContinue(t) ==
  LET k == NextProcessing(t.snap, t.idx + 1)
  IN IF k = 0 THEN EmptyBag
     ELSE SetToBag({[snap |-> t.snap, idx |-> k, pc |-> "status"]})

\* the callback after an await rejected: the catch encloses the for loop
TickAfterError(t) == EmptyBag

\* mutant: the cleanup clears nothing
EffectCleanupNone(ts, prevActive) == ts

\* return () => clearInterval(pollInterval): clears the timer the effect run
\* for prevActive created (none when that run returned early)
EffectCleanup(ts, prevActive) ==
  IF Len(prevActive) = 0 \/ Len(ts) = 0 THEN ts ELSE SubSeq(ts, 1, Len(ts) - 1)

\* mutant: the effect returns no cleanup, so the previous timer stays armed
PollEffectNoCleanup(ts, prevActive, newActive) ==
  IF Len(newActive) = 0 THEN ts ELSE Append(ts, newActive)

\* useEffect(..., [activeUploads]): the previous run's cleanup, then the body
PollEffect(ts, prevActive, newActive) ==
  IF Len(newActive) = 0
  THEN EffectCleanup(ts, prevActive)
  ELSE Append(EffectCleanup(ts, prevActive), newActive)

\* mutant: the share of the batch is taken from i, not i + 1
AggregateProgressByIndex(loaded, total, i, n) ==
  << loaded * i, (IF total = 0 THEN 1 ELSE total) * n >>

\* onUploadProgress: (loaded / (total || 1)) * ((i + 1) / files.length)
AggregateProgress(loaded, total, i, n) ==
  << loaded * (i + 1), (IF total = 0 THEN 1 ELSE total) * n >>

FracLeq(p, q) == p[1] * q[2] <= q[1] * p[2]

\* -------------------------------------------------------------------- Init
Init ==
  /\ files = <<>>
  /\ uploading = FALSE
  /\ uploadProgress = <<0, 1>>
  /\ uploadSuccess = "null"
  /\ processedChunks = <<>>
  /\ activeUploads = <<>>
  /\ processingStatuses = NoStatuses
  /\ timers = <<>>
  /\ ticks = EmptyBag
  /\ up = IdleUpload
  /\ backend = [id \in JobIds |-> "NONE"]
  /\ nextId = 1
  /\ mounted = TRUE
  /\ alert = "none"
  /\ console = NoLog

\* A state update is dropped once the component is unmounted.
\* setA: setActiveUploads was called in the segment (the effect re-runs).
Commit(f, u, p, s, c, setA, a, m) ==
  IF mounted
  THEN /\ files' = f
       /\ uploading' = u
       /\ uploadProgress' = p
       /\ uploadSuccess' = s
       /\ processedChunks' = c
       /\ activeUploads' = a
       /\ processingStatuses' = m
       /\ timers' = IF setA THEN PollEffect(timers, activeUploads, a) ELSE timers
  ELSE UNCHANGED <<files, uploading, uploadProgress, uploadSuccess,
                   processedChunks, activeUploads, processingStatuses, timers>>

\* ------------------------------------------------------ selection handlers
\* pickDocument, after DocumentPicker.pick resolved with `result`
pickDocument(result) ==
  /\ mounted
  /\ Commit(result, uploading, uploadProgress, "null", <<>>, TRUE, <<>>, NoStatuses)
  /\ alert' = "none"
  /\ console' = NoLog
  /\ UNCHANGED <<ticks, up, backend, nextId, mounted>>

\* pickDocument, after DocumentPicker.pick rejected (cancelled or failed)
pickDocumentCatch(cancelled) ==
  /\ mounted
  /\ alert' = IF cancelled THEN "none" ELSE "Error"
  /\ console' = IF cancelled THEN CancelLog ELSE NoLog
  /\ UNCHANGED <<files, uploading, uploadProgress, uploadSuccess, processedChunks,
                 activeUploads, processingStatuses, timers, ticks, up, backend,
                 nextId, mounted>>

\* removeFile(uri), from the Remove button of a listed file
removeFile(uri) ==
  /\ mounted
  /\ \E k \in 1..Len(files) : files[k] = uri
  /\ Commit(RemoveUri(files, uri), uploading, uploadProgress, uploadSuccess,
            processedChunks, FALSE, activeUploads, processingStatuses)
  /\ alert' = "none"
  /\ console' = NoLog
  /\ UNCHANGED <<ticks, up, backend, nextId, mounted>>

\* ------------------------------------------------------------- uploadFiles
\* axios.post for batch[i] goes out (0-based i, as in the loop)
IssuePost(u, i, acked) ==
  [pc |-> "post", batch |-> u.batch, i |-> i, newUploads |-> acked, sent |-> 0,
   total |-> 0, posted |-> Append(u.posted, u.batch[i + 1]), inflight |-> u.inflight + 1]

\* mutant: the POST is not awaited, the next one goes out beside it
UploadLoopNextNoAwait(u, acked) == IssuePost(u, u.i + 1, acked)

\* mutant: newUploads is declared inside the loop, the earlier jobs are lost
UploadLoopNextForgets(u, acked) ==
  IssuePost([u EXCEPT !.inflight = u.inflight - 1], u.i + 1, <<>>)

\* the loop after the response for batch[u.i]: the next iteration's POST
UploadLoopNext(u, acked) ==
  IssuePost([u EXCEPT !.inflight = u.inflight - 1], u.i + 1, acked)

\* mutant: the button is rendered whenever the list is non-empty
ProcessButtonShownAlways == Len(files) > 0

\* {!uploading && files.length > 0 && <Button title="Process Documents" .../>}
ProcessButtonShown == ~uploading /\ Len(files) > 0

\* uploadFiles up to the first await: the resets, then the POST for files[0].
\* The Process Documents button is rendered only if !uploading && files.length > 0.
uploadFilesStart ==
  /\ mounted
  /\ ProcessButtonShown
  /\ nextId + Len(files) - 1 <= MaxJobs
  /\ Commit(files, TRUE, <<0, 1>>, "null", <<>>, TRUE, <<>>, processingStatuses)
  /\ up' = IssuePost([IdleUpload EXCEPT !.batch = files], 0, <<>>)
  /\ alert' = "none"
  /\ console' = NoLog
  /\ UNCHANGED <<ticks, backend, nextId, mounted>>

\* mutant: setUploading(true) runs before the length test
UploadingAfterNoFileSet(prev) == TRUE

\* the early return calls no setter: uploading stays as it is
UploadingAfterNoFile(prev) == prev

\* uploadFiles invoked with an empty list: the handler's own test of
\* files.length (the Process Documents button is rendered only for a
\* non-empty list, so the screen itself does not make this call)
uploadFilesEmpty ==
  /\ mounted
  /\ Len(files) = 0
  /\ Commit(files, UploadingAfterNoFile(uploading), uploadProgress, uploadSuccess,
            processedChunks, FALSE, activeUploads, processingStatuses)
  /\ alert' = "No File"
  /\ console' = NoLog
  /\ UNCHANGED <<ticks, up, backend, nextId, mounted>>

\* onUploadProgress of the request in flight; total = 0 stands for an event
\* without a total (progressEvent.total undefined).  The events of one request
\* carry growing loaded and the same total.
onUploadProgress(loaded, total) ==
  /\ up.pc = "post"
  /\ loaded > up.sent
  /\ up.sent = 0 \/ total = up.total
  /\ Commit(files, uploading,
            AggregateProgress(loaded, total, up.i, Len(up.batch)),
            uploadSuccess, processedChunks, FALSE, activeUploads, processingStatuses)
  /\ up' = [up EXCEPT !.sent = loaded, !.total = total]
  /\ alert' = "none"
  /\ console' = NoLog
  /\ UNCHANGED <<ticks, backend, nextId, mounted>>

\* the POST for batch[i] resolved: push, preview chunks, then either the next
\* iteration or the code after the loop
uploadResponse(status) ==
  /\ up.pc = "post"
  /\ nextId <= MaxJobs
  /\ LET job == [upload_id |-> nextId, status |-> status]
         acked == Append(up.newUploads, job)
         chunks == processedChunks \o PreviewChunks(job.upload_id)
     IN /\ backend' = [backend EXCEPT ![nextId] = "PROCESSING"]
        /\ nextId' = nextId + 1
        /\ IF up.i + 1 < Len(up.batch)
           THEN /\ Commit(files, uploading, uploadProgress, uploadSuccess, chunks,
                          FALSE, activeUploads, processingStatuses)
                /\ up' = UploadLoopNext(up, acked)
                /\ alert' = "none"
           ELSE /\ Commit(files, FALSE, uploadProgress, uploadSuccess, chunks,
                          TRUE, acked, processingStatuses)
                /\ up' = IdleUpload
                /\ alert' = "Upload Started!"
  /\ console' = NoLog
  /\ UNCHANGED <<ticks, mounted>>

\* mutant: the alert ignores the backend's detail
UploadErrorMessageGeneric(detail) == "Failed to upload and process file"

\* err.response?.data?.detail || "Failed to upload and process file"
UploadErrorMessage(detail) ==
  IF detail THEN "detail" ELSE "Failed to upload and process file"

\* mutant: the catch also empties the aggregate (setProcessedChunks([]))
ChunksAfterUploadErrorReset(prev) == <<>>

\* the catch block calls no setProcessedChunks: the aggregate stays as it is
ChunksAfterUploadError(prev) == prev

\* the POST for batch[i] rejected: the catch block; detail: the error carries
\* err.response.data.detail
uploadCatch(detail) ==
  /\ up.pc = "post"
  /\ Commit(files, FALSE, uploadProgress, "false",
            ChunksAfterUploadError(processedChunks),
            FALSE, activeUploads, processingStatuses)
  /\ up' = IdleUpload
  /\ alert' = UploadErrorMessage(detail)
  /\ console' = UploadErrorLog
  /\ UNCHANGED <<ticks, backend, nextId, mounted>>

\* ---------------------------------------------------------------- poller
\* mutant: setActiveUploads(activeUploads.filter(...)), the callback's snapshot
RetireFromSnapshot(prev, snap, id) == RemoveUpload(snap, id)

\* setActiveUploads(prev => prev.filter(u => u.upload_id !== upload.upload_id)):
\* the updater filters the current state, not the callback's snapshot
RetireUpload(prev, snap, id) == RemoveUpload(prev, id)

\* mutant: COMPLETED removes the job at once, before the final chunks are fetched
ActiveAfterStatusEager(prev, snap, id, st) ==
  IF st \in {"FAILED", "COMPLETED"} THEN RemoveUpload(prev, id) ELSE prev

\* mutant: the FAILED branch raises the alert but keeps the job
ActiveAfterStatusKeepsFailed(prev, snap, id, st) == prev

\* the active set after the status of job id was observed: only FAILED
\* removes here, COMPLETED removes after the final chunks arrived
ActiveAfterStatus(prev, snap, id, st) ==
  IF st = "FAILED" THEN RetireUpload(prev, snap, id) ELSE prev

\* setProcessedChunks(prev => [...prev, ...finalChunks])
AppendChunks(prev, chunks) == prev \o chunks

\* the interval of an armed timer fires: the callback runs to its first await
tickStart(k) ==
  /\ k \in 1..Len(timers)
  /\ BagCardinality(ticks) < MaxTicks
  /\ LET snap == timers[k]
         j == NextProcessing(snap, 1)
     IN ticks' = IF j = 0 THEN ticks
                 ELSE ticks (+) SetToBag({[snap |-> snap, idx |-> j, pc |-> "status"]})
  /\ alert' = "none"
  /\ console' = NoLog
  /\ UNCHANGED <<files, uploading, uploadProgress, uploadSuccess, processedChunks,
                 activeUploads, processingStatuses, timers, up, backend, nextId,
                 mounted>>

\* GET /upload_status/{id} resolved with status st: the backend's processing
\* of the job may have ended at any time before it answers, and once it has
\* reported COMPLETED or FAILED it keeps reporting that
statusResponse(t, st) ==
  /\ BagIn(t, ticks)
  /\ t.pc = "status"
  /\ LET id == t.snap[t.idx].upload_id
     IN /\ backend[id] \in {"PROCESSING", st}
        /\ backend' = [backend EXCEPT ![id] = st]
        /\ Commit(files, uploading, uploadProgress, uploadSuccess, processedChunks,
                  st = "FAILED",
                  ActiveAfterStatus(activeUploads, t.snap, id, st),
                  SetStatus(processingStatuses, id, st))
        /\ ticks' = (ticks (-) SetToBag({t})) (+)
                      (IF st = "COMPLETED"
                       THEN SetToBag({[t EXCEPT !.pc = "chunks"]})
                       ELSE TickContinue(t))
        /\ alert' = IF st = "FAILED" THEN "Processing Failed" ELSE "none"
  /\ console' = NoLog
  /\ UNCHANGED <<up, nextId, mounted>>

\* GET /final_chunks/{id} resolved
finalResponse(t) ==
  /\ BagIn(t, ticks)
  /\ t.pc = "chunks"
  /\ LET id == t.snap[t.idx].upload_id
     IN Commit(files, uploading, uploadProgress, "true",
               AppendChunks(processedChunks, FinalChunks(id)), TRUE,
               RetireUpload(activeUploads, t.snap, id), processingStatuses)
  /\ ticks' = (ticks (-) SetToBag({t})) (+) TickContinue(t)
  /\ alert' = "none"
  /\ console' = NoLog
  /\ UNCHANGED <<up, backend, nextId, mounted>>

\* mutant: the catch drops the job whose request was rejected
ActiveAfterErrorDropsJob(prev, id) == RemoveUpload(prev, id)

\* the catch block calls no setActiveUploads: the active set stays as it is
ActiveAfterError(prev, id) == prev

\* mutant: the catch starts the status cache afresh
StatusesAfterErrorCleared(prev, id) == NoStatuses

\* the catch block calls no setProcessingStatuses: the cache stays as it is
StatusesAfterError(prev, id) == prev

\* either GET rejected: console.error in the catch, nothing else
tickCatch(t) ==
  /\ BagIn(t, ticks)
  /\ LET id == t.snap[t.idx].upload_id
     IN /\ Commit(files, uploading, uploadProgress, uploadSuccess, processedChunks,
                  FALSE, ActiveAfterError(activeUploads, id),
                  StatusesAfterError(processingStatuses, id))
        /\ console' = PollErrorLog(IF t.pc = "status" THEN "upload_status"
                                                     ELSE "final_chunks", id)
  /\ ticks' = (ticks (-) SetToBag({t})) (+) TickAfterError(t)
  /\ alert' = "none"
  /\ UNCHANGED <<up, backend, nextId, mounted>>

\* the screen is torn down: the effect's cleanup runs
unmount ==
  /\ mounted
  /\ mounted' = FALSE
  /\ timers' = EffectCleanup(timers, activeUploads)
  /\ alert' = "none"
  /\ console' = NoLog
  /\ UNCHANGED <<files, uploading, uploadProgress, uploadSuccess, processedChunks,
                 activeUploads, processingStatuses, ticks, up, backend, nextId>>

\* ---------------------------------------------------------- specifications
\* the screen with its poller: selection, upload batches, ticks, the backend.
\* A rejected picker changes no state of the screen and onUploadProgress only
\* uploadProgress, which nothing reads: both are left to SpecTransport.
Next ==
  \/ \E result \in Selections : pickDocument(result)
  \/ \E uri \in FileUris : removeFile(uri)
  \/ uploadFilesStart
  \/ \E status \in UploadStatuses : uploadResponse(status)
  \/ \E detail \in BOOLEAN : uploadCatch(detail)
  \/ \E k \in 1..Len(timers) : tickStart(k)
  \/ \E t \in BagToSet(ticks), st \in PollStatuses : statusResponse(t, st)
  \/ \E t \in BagToSet(ticks) : finalResponse(t)
  \/ \E t \in BagToSet(ticks) : tickCatch(t)

Spec == Init /\ [][Next]_vars

\* the upload transport alone, with the progress events of each request
NextTransport ==
  \/ \E result \in Selections : pickDocument(result)
  \/ \E cancelled \in BOOLEAN : pickDocumentCatch(cancelled)
  \/ \E uri \in FileUris : removeFile(uri)
  \/ uploadFilesStart
  \/ \E loaded \in 1..FileSize, total \in {0, FileSize} : onUploadProgress(loaded, total)
  \/ \E status \in UploadStatuses : uploadResponse(status)
  \/ \E detail \in BOOLEAN : uploadCatch(detail)

SpecTransport == Init /\ [][NextTransport]_vars

\* the upload transport with uploadFiles also invoked on an empty list
NextHandlers == NextTransport \/ uploadFilesEmpty

SpecHandlers == Init /\ [][NextHandlers]_vars

\* the screen with its poller, torn down at some point
NextLifecycle == Next \/ unmount

SpecLifecycle == Init /\ [][NextLifecycle]_vars

\* the poll-tick segment in which the status request for job id was answered
StatusAnswered(id) ==
  \E t \in BagToSet(ticks), st \in PollStatuses :
     t.snap[t.idx].upload_id = id /\ statusResponse(t, st)

\* the poll-tick segment in which the final-chunks request for job id was answered
FinalAnswered(id) ==
  \E t \in BagToSet(ticks) : t.snap[t.idx].upload_id = id /\ finalResponse(t)

\* the screen with its poller where the interval keeps firing (setInterval)
\* and network errors are transient: a request that is made again and again
\* is answered at some point
SpecPolling ==
  /\ Spec
  /\ WF_vars(\E k \in 1..Len(timers) : tickStart(k))
  /\ \A id \in JobIds : SF_vars(StatusAnswered(id)) /\ SF_vars(FinalAnswered(id))

\* the poll-tick segment in which the status request for job id was answered
\* with COMPLETED or FAILED
TerminalAnswered(id) ==
  \E t \in BagToSet(ticks), st \in {"COMPLETED", "FAILED"} :
     t.snap[t.idx].upload_id = id /\ statusResponse(t, st)

\* the screen with its poller where the interval keeps firing, the backend
\* ends every job it is asked about and requests are answered
SpecCompleting ==
  /\ Spec
  /\ WF_vars(\E k \in 1..Len(timers) : tickStart(k))
  /\ \A id \in JobIds : SF_vars(TerminalAnswered(id)) /\ SF_vars(FinalAnswered(id))

\* ------------------------------------------------------------------ claims
\* the poll-tick segments
TickStep ==
  \E t \in BagToSet(ticks) :
     \/ \E st \in PollStatuses : statusResponse(t, st)
     \/ finalResponse(t)
     \/ tickCatch(t)

\* the tick segment that retires job id after the backend reported it
\* COMPLETED (final chunks arrived) or FAILED
TickRetires(id) ==
  \E t \in BagToSet(ticks) :
     /\ t.snap[t.idx].upload_id = id
     /\ statusResponse(t, "FAILED") \/ finalResponse(t)

\* how many entries of the aggregate equal chunk c
Occurrences(c) ==
  Cardinality({ k \in 1..Len(processedChunks) : processedChunks[k] = c })

\* the poller's requests in flight for job id (status or final chunks)
RequestsInFlight(id) ==
  LET on == { t \in BagToSet(ticks) : t.snap[t.idx].upload_id = id }
  IN BagCardinality([t \in on |-> CopiesIn(t, ticks)])

\* C1: within one tick, a failed status or final-chunks fetch for a job does
\* not keep the tick from querying the PROCESSING jobs that follow it in the
\* tick's list: after the failure the tick goes on to the next such job.
C1_FailureIsolatedPerJob ==
  [][ \A t \in BagToSet(ticks) :
        (tickCatch(t) /\ NextProcessing(t.snap, t.idx + 1) # 0)
          => BagIn([snap |-> t.snap, idx |-> NextProcessing(t.snap, t.idx + 1),
                    pc |-> "status"], ticks') ]_vars

\* C2: when the transmission of file k > 1 of a batch fails, the jobs already
\* acknowledged for files 1..k-1 are registered in activeUploads.
C2_AckedJobsStayRegistered ==
  [][ \A detail \in BOOLEAN :
        uploadCatch(detail) => Ids(up.newUploads) \subseteq Ids(activeUploads') ]_vars

\* C3: the aggregate holds the final chunks of a job at most once.
C3_FinalChunksAtMostOnce ==
  \A id \in JobIds : Occurrences(FinalChunks(id)[1]) <= 1

\* C4: for every job, at most one request of the poller (status or final
\* chunks) is in flight at any time.
C4_OneRequestPerJob ==
  \A id \in JobIds : RequestsInFlight(id) <= 1

\* C5: during a batch the aggregate progress set by onUploadProgress stays
\* within [0,1] and never decreases from one callback to the next.
C5_ProgressMonotoneInUnitRange ==
  [][ (uploading /\ uploading')
        => /\ FracLeq(uploadProgress, uploadProgress')
           /\ FracLeq(<<0, 1>>, uploadProgress')
           /\ FracLeq(uploadProgress', <<1, 1>>) ]_vars

\* C5, the monotonicity alone between two events that both carry a total
\* (a supplementary check: it fails from the last event of one file to the
\* first event of the next)
C5_MonotoneWithKnownTotals ==
  [][ (/\ uploading /\ uploading'
       /\ up'.total = FileSize
       /\ uploadProgress[2] = FileSize * Len(up.batch))
        => FracLeq(uploadProgress, uploadProgress') ]_vars

\* C6 as stated: every batch ends with exactly one POST issued per file of
\* the batch, in the order of the list.
C6_EveryBatchPostsEveryFile ==
  [][ (up.pc = "post" /\ up'.pc = "idle") => up.posted = up.batch ]_vars

\* C6 amended: the POSTs of a batch are the files of the list in order without
\* a gap or a repeat (one more than the responses received), all of them
\* when the batch ends with every request answered, and at most one POST is
\* in flight at any time.
C6_PostsInOrderOneAtATime ==
  [][ /\ up'.pc = "post"
        => /\ up'.posted = SubSeq(up'.batch, 1, Len(up'.newUploads) + 1)
           /\ up'.inflight = 1
      /\ up'.pc = "idle" => up'.inflight = 0
      /\ (up'.pc = "idle" /\ \E status \in UploadStatuses : uploadResponse(status))
        => up.posted = up.batch ]_vars

\* C6 witness: the second POST of a batch is in flight, the first one answered
C6_SecondPostInFlight ==
  up.pc = "post" /\ Len(up.newUploads) = 1 /\ Len(up.posted) = 2

\* C7 as stated: a job leaves the active set only in the tick segment that
\* observed COMPLETED or FAILED for it.
C7_OnlyTicksRemove ==
  [][ \A id \in Ids(activeUploads) \ Ids(activeUploads') : TickRetires(id) ]_vars

\* C7 amended: a job leaves the active set only in the tick segment that
\* observed COMPLETED or FAILED for it, or when pickDocument or uploadFiles
\* resets the active set to empty; removeFile removes no job.
C7_OnlyTicksAndResetsRemove ==
  [][ \A id \in Ids(activeUploads) \ Ids(activeUploads') :
        \/ TickRetires(id)
        \/ /\ activeUploads' = <<>>
           /\ uploadFilesStart \/ \E result \in Selections : pickDocument(result) ]_vars

\* C7 witness: a tick retired a FAILED job and another job is still active
C7_RetiredWhileOtherActive ==
  alert = "Processing Failed" /\ Len(activeUploads) > 0

\* C8: no tick segment, of a current or of a stale tick, puts an upload_id
\* into the active set: what a tick removed no tick brings back.
C8_TicksNeverAdd ==
  [][ TickStep => Ids(activeUploads') \subseteq Ids(activeUploads) ]_vars

\* C8 witness: a tick in flight still holds a snapshot with a job that a tick
\* has since removed (another job of that snapshot is still active)
C8_StaleTickAfterRemoval ==
  \E t \in BagToSet(ticks) :
     /\ t.snap[t.idx].upload_id \notin Ids(activeUploads)
     /\ backend[t.snap[t.idx].upload_id] \in {"COMPLETED", "FAILED"}
     /\ \E k \in 1..Len(t.snap) : t.snap[k].upload_id \in Ids(activeUploads)

\* C9: in the tick segment that removes a job reported COMPLETED, the job's
\* final chunks are in the aggregate when the job leaves the active set; a
\* failed fetch (status or final chunks) leaves the active set as it was.
C9_ChunksBeforeRemoval ==
  [][ /\ \A id \in Ids(activeUploads) \ Ids(activeUploads') :
           (TickStep /\ backend'[id] = "COMPLETED")
             => Occurrences(FinalChunks(id)[1])' >= 1
      /\ \A t \in BagToSet(ticks) :
           tickCatch(t) => activeUploads' = activeUploads ]_vars

\* C9 witness: a job reported COMPLETED has left the active set, its final
\* chunks are in the aggregate and the success flag is set
C9_CompletedJobRetired ==
  \E id \in JobIds :
     /\ backend[id] = "COMPLETED"
     /\ id \notin Ids(activeUploads)
     /\ Occurrences(FinalChunks(id)[1]) = 1
     /\ uploadSuccess = "true"
     /\ Len(activeUploads) > 0

\* the armed timers are exactly: none for an empty active set, else the one
\* whose callback closed over the current activeUploads
TimerMatchesActiveSet ==
  timers = IF Len(activeUploads) = 0 THEN <<>> ELSE <<activeUploads>>

\* C10: the poll timer is armed exactly while the active set is non-empty,
\* and while the active set is empty no new tick starts.
C10_TimerArmedIffActive ==
  /\ TimerMatchesActiveSet
  /\ [][ /\ TimerMatchesActiveSet'
         /\ Len(activeUploads) = 0 => BagCardinality(ticks') <= BagCardinality(ticks) ]_vars

\* C10 witness: the last active job was just retired and the timer is released
C10_TimerReleased ==
  alert = "Processing Failed" /\ Len(activeUploads) = 0 /\ timers = <<>>

\* C11: a failed status fetch for job A in a tick changes neither the cached
\* status nor the active-set membership of any other job B.
C11_FailedFetchLeavesOthers ==
  [][ \A t \in BagToSet(ticks) :
        (tickCatch(t) /\ t.pc = "status")
          => \A b \in JobIds \ {t.snap[t.idx].upload_id} :
                /\ processingStatuses'[b] = processingStatuses[b]
                /\ (b \in Ids(activeUploads')) = (b \in Ids(activeUploads)) ]_vars

\* C11 witness: the status fetch of a job was just rejected while another job
\* is active with a cached status
C11_FetchFailedBesideCachedJob ==
  /\ console.msg = "Error polling status:" /\ console.path = "upload_status"
  /\ \E b \in Ids(activeUploads) \ {console.id} : processingStatuses[b] # "none"

\* the status fetch of job id was just rejected
StatusFetchFailed(id) == console = PollErrorLog("upload_status", id)

\* a status request for job id is in flight
StatusRequested(id) ==
  \E t \in BagToSet(ticks) : t.pc = "status" /\ t.snap[t.idx].upload_id = id

FinalRequestsInFlight(id) ==
  LET on == { t \in BagToSet(ticks) : t.pc = "chunks" /\ t.snap[t.idx].upload_id = id }
  IN BagCardinality([t \in on |-> CopiesIn(t, ticks)])

\* C13: the tick segment that observes FAILED for a job removes that job from
\* the active set and raises the "Processing Failed" alert; it issues no
\* final-chunks request for the job (none is in flight for a job reported
\* FAILED), and no other job's membership or cached status and no chunk
\* changes.
C13_FailedJobRetiredAlone ==
  /\ \A id \in JobIds : backend[id] = "FAILED" => FinalRequestsInFlight(id) = 0
  /\ [][ \A t \in BagToSet(ticks) :
          statusResponse(t, "FAILED")
            => LET a == t.snap[t.idx].upload_id
               IN /\ a \notin Ids(activeUploads')
                  /\ alert' = "Processing Failed"
                  /\ FinalRequestsInFlight(a)' = 0
                  /\ activeUploads' = RemoveUpload(activeUploads, a)
                  /\ \A b \in JobIds \ {a} :
                        processingStatuses'[b] = processingStatuses[b]
                  /\ processedChunks' = processedChunks ]_vars

\* C13 witness: a tick just observed FAILED for a job that was active beside
\* another job, which is still active with its cached status and the chunks
\* of both are in the aggregate
C13_FailedBesideActiveJob ==
  /\ alert = "Processing Failed"
  /\ \E a \in JobIds, b \in Ids(activeUploads) :
        /\ a # b
        /\ processingStatuses[a] = "FAILED"
        /\ a \notin Ids(activeUploads)
        /\ processingStatuses[b] = "PROCESSING"
  /\ Len(processedChunks) = 2

\* C14: at most one GET /final_chunks/{upload_id} is ever issued per job;
\* checked through its consequence that no two such requests for one job are
\* in flight at the same time.
C14_OneFinalChunksRequestPerJob ==
  \A id \in JobIds : FinalRequestsInFlight(id) <= 1

\* C14, the second half alone (a supplementary check, it holds): a
\* final-chunks request is in flight only for a job reported COMPLETED
C14_FinalChunksOnlyAfterCompleted ==
  \A t \in BagToSet(ticks) :
     t.pc = "chunks" => backend[t.snap[t.idx].upload_id] = "COMPLETED"

\* C15: when the POST of file k is rejected, the batch ends there: the files
\* POSTed are files 1..k, none is in flight, and a later POST belongs to a new
\* batch; the catch raises one alert, with the backend's detail when the error
\* carries one and the generic message otherwise.
C15_FailureAbortsBatchWithAlert ==
  [][ /\ \A detail \in BOOLEAN :
           uploadCatch(detail)
             => /\ up.posted = SubSeq(up.batch, 1, up.i + 1)
                /\ up'.pc = "idle" /\ up'.inflight = 0
                /\ alert' = (IF detail THEN "detail"
                                       ELSE "Failed to upload and process file")
      /\ (up'.pc = "post" /\ up'.posted # up.posted)
           => \/ up.pc = "idle" /\ uploadFilesStart
              \/ up.pc = "post" /\ \E status \in UploadStatuses : uploadResponse(status) ]_vars

\* C15 witness: the POST of the second of two files was just rejected with a
\* detail, after the first file was acknowledged
C15_SecondFileRejected ==
  /\ alert = "detail"
  /\ console = UploadErrorLog
  /\ up.pc = "idle" /\ ~uploading /\ uploadSuccess = "false"
  /\ Len(processedChunks) = 1

\* C16: a tick segment that observes PROCESSING for a job changes only that
\* job's cached status entry: the active set (members and order) and the
\* aggregate are unchanged and the timer is not re-armed, however often the
\* job is polled.
C16_ProcessingPollChangesOnlyCache ==
  [][ \A t \in BagToSet(ticks) :
        statusResponse(t, "PROCESSING")
          => LET a == t.snap[t.idx].upload_id
             IN /\ processingStatuses' = [processingStatuses EXCEPT ![a] = "PROCESSING"]
                /\ activeUploads' = activeUploads
                /\ processedChunks' = processedChunks
                /\ timers' = timers
                /\ alert' = "none" ]_vars

\* C16 witness: a job whose earlier poll was answered PROCESSING is polled
\* again, beside another job with a cached status
C16_PolledAgainWhileProcessing ==
  \E t \in BagToSet(ticks) :
     /\ t.pc = "status"
     /\ processingStatuses[t.snap[t.idx].upload_id] = "PROCESSING"
     /\ \E b \in Ids(activeUploads) \ {t.snap[t.idx].upload_id} :
           processingStatuses[b] = "PROCESSING"
     /\ timers = <<activeUploads>>

\* C17: when the last file of a batch of n files is acknowledged (every file
\* succeeded), the active set becomes the n jobs of the batch, one per file in
\* the order of the uploads, and a PROCESSING poll result leaves the active set
\* as it is.
C17_BatchRegistersJobsInOrder ==
  [][ /\ \A status \in UploadStatuses :
           (uploadResponse(status) /\ up.i + 1 = Len(up.batch))
             => /\ Len(activeUploads') = Len(up.batch)
                /\ \A k \in 1..Len(up.newUploads) : activeUploads'[k] = up.newUploads[k]
                /\ activeUploads'[Len(up.batch)] = [upload_id |-> nextId, status |-> status]
                /\ \A j, k \in 1..Len(activeUploads') :
                      j < k => activeUploads'[j].upload_id < activeUploads'[k].upload_id
      /\ Len(up'.newUploads) = IF up'.pc = "post" THEN up'.i ELSE 0
      /\ \A t \in BagToSet(ticks) :
           statusResponse(t, "PROCESSING") => activeUploads' = activeUploads ]_vars

\* C17 witness: a batch of two files was registered and the first poll of its
\* first job was answered PROCESSING: both jobs are active, in upload order
C17_TwoJobsActiveAfterFirstPoll ==
  /\ Len(activeUploads) = 2
  /\ activeUploads[1].upload_id = 1 /\ activeUploads[2].upload_id = 2
  /\ processingStatuses[1] = "PROCESSING" /\ processingStatuses[2] = "none"
  /\ Len(processedChunks) = 2

\* the positions of chunk c in the aggregate
Positions(c) == { k \in 1..Len(processedChunks) : processedChunks[k] = c }

\* C18: a job whose final chunks are in the aggregate contributes its preview
\* chunks followed by its final chunks, each once: len(preview) + len(final)
\* entries.
C18_PreviewThenFinalOncePerJob ==
  \A id \in JobIds :
     Positions(FinalChunks(id)[1]) # {}
       => /\ Cardinality(Positions(PreviewChunks(id)[1])) = 1
          /\ Cardinality(Positions(FinalChunks(id)[1])) = 1
          /\ \A p \in Positions(PreviewChunks(id)[1]), f \in Positions(FinalChunks(id)[1]) :
                p < f

\* C18, what holds of it (a supplementary check): a tick segment removes or
\* replaces no entry of the aggregate, it appends at the end
C18_TicksOnlyAppend ==
  [][ TickStep
        => /\ Len(processedChunks') >= Len(processedChunks)
           /\ SubSeq(processedChunks', 1, Len(processedChunks)) = processedChunks ]_vars

\* the preview chunks of the acknowledged jobs, in the order of the uploads
RECURSIVE PreviewsOf(_)
PreviewsOf(acked) ==
  IF acked = <<>> THEN <<>>
  ELSE PreviewChunks(Head(acked).upload_id) \o PreviewsOf(Tail(acked))

\* the entries of a occur in c in the same order (not necessarily adjacent)
RECURSIVE Embeds(_, _)
Embeds(a, c) ==
  IF a = <<>> THEN TRUE
  ELSE IF c = <<>> THEN FALSE
  ELSE IF Head(a) = Head(c) THEN Embeds(Tail(a), Tail(c))
  ELSE Embeds(a, Tail(c))

\* C19 as stated: after a mid-batch failure the preview chunks of the files
\* uploaded before the failing one are in the aggregate, in upload order.
C19_PreviewsPresentAfterFailure ==
  [][ \A detail \in BOOLEAN :
        uploadCatch(detail) => Embeds(PreviewsOf(up.newUploads), processedChunks') ]_vars

\* C19 amended: the failure handler leaves the aggregate as it is, and while a
\* batch runs the preview chunks of its acknowledged files stay in the
\* aggregate in upload order unless a new selection is picked meanwhile.
C19_FailureKeepsAggregate ==
  [][ /\ \A detail \in BOOLEAN : uploadCatch(detail) => processedChunks' = processedChunks
      /\ (/\ up.pc = "post"
          /\ Embeds(PreviewsOf(up.newUploads), processedChunks)
          /\ ~ \E result \in Selections : pickDocument(result))
           => Embeds(PreviewsOf(IF up'.pc = "post" THEN up'.newUploads ELSE up.newUploads),
                     processedChunks') ]_vars

\* C19 witness: the second file of a batch was just rejected and the preview
\* chunks of the first file are the aggregate
C19_PreviewKeptAfterFailure ==
  /\ console = UploadErrorLog
  /\ alert = "Failed to upload and process file"
  /\ nextId > 1
  /\ processedChunks = PreviewChunks(nextId - 1)

\* C20: after the screen is torn down no new tick starts and no new status
\* request is issued: no status request is in flight that was not in flight
\* before the step.
C20_NoStatusRequestAfterUnmount ==
  [][ ~mounted
        => \A t \in BagToSet(ticks') :
              t.pc = "status" => CopiesIn(t, ticks') <= CopiesIn(t, ticks) ]_vars

\* C20, the first half alone (a supplementary check, it holds): the unmount
\* releases the timer, so that no interval callback starts afterwards
C20_TimerReleasedOnUnmount ==
  /\ ~mounted => timers = <<>>
  /\ [][ ~mounted => BagCardinality(ticks') <= BagCardinality(ticks) ]_vars

\* C21: when the last file of a batch is acknowledged (every file succeeded)
\* and the last progress event of its request had loaded equal to total, the
\* aggregate progress last reported is exactly 1.
C21_ProgressEndsAtOne ==
  [][ \A status \in UploadStatuses :
        (/\ uploadResponse(status)
         /\ up.i + 1 = Len(up.batch)
         /\ up.total > 0 /\ up.sent = up.total)
          => /\ uploadProgress'[2] > 0
             /\ uploadProgress'[1] = uploadProgress'[2] ]_vars

\* C21 witness: a batch of two files just ended with every file acknowledged
\* and the progress at 1, reported by the last event of the second request
C21_TwoFileBatchEndedAtOne ==
  /\ alert = "Upload Started!"
  /\ Len(activeUploads) = 2
  /\ uploadProgress = << FileSize * 2, FileSize * 2 >>

\* the files in a list
Uris(fs) == { fs[k] : k \in 1..Len(fs) }

\* C22: removeFile takes the file out of the selection list and changes
\* nothing else; a batch transmits files of the list as it was when
\* uploadFiles was invoked, so a file removed before that is not transmitted.
C22_RemovedFileNotTransmitted ==
  /\ Uris(up.posted) \subseteq Uris(up.batch)
  /\ [][ /\ \A uri \in FileUris :
             removeFile(uri)
               => /\ uri \notin Uris(files')
                  /\ Uris(files') = Uris(files) \ {uri}
                  /\ UNCHANGED <<uploading, uploadProgress, uploadSuccess,
                                 processedChunks, activeUploads, processingStatuses,
                                 timers, ticks, up, backend, nextId>>
         /\ uploadFilesStart => up'.batch = files /\ up'.posted = <<files[1]>>
         /\ up'.pc = "post" => up'.batch = (IF up.pc = "post" THEN up.batch ELSE files) ]_vars

\* C22 witness: every file was removed from the list (no selection is empty
\* otherwise) while a job is active with a cached status and chunks are in
\* the aggregate
C22_ListEmptiedBesideActiveJob ==
  /\ files = <<>>
  /\ up.pc = "idle"
  /\ \E id \in Ids(activeUploads) : processingStatuses[id] # "none"
  /\ Len(processedChunks) > 0

\* C23: uploadFiles invoked with an empty selection issues no request and
\* changes no state; it only raises the "No File" alert.
C23_EmptySelectionOnlyAlerts ==
  [][ uploadFilesEmpty
        => /\ alert' = "No File"
           /\ UNCHANGED <<files, uploading, uploadProgress, uploadSuccess,
                          processedChunks, activeUploads, processingStatuses,
                          timers, ticks, up, backend, nextId>> ]_vars

\* C23 witness: the "No File" alert was just raised while jobs of an earlier
\* batch are registered and their chunks are in the aggregate
C23_NoFileAlertBesideJobs ==
  /\ alert = "No File"
  /\ Len(activeUploads) > 0
  /\ Len(processedChunks) > 0
  /\ up.pc = "idle" /\ ~uploading

\* C24: every registered job is eventually removed from the active set,
\* whatever status string its upload response carried.
C24_EveryJobEventuallyRetired ==
  \A id \in JobIds :
     (id \in Ids(activeUploads)) ~> (id \notin Ids(activeUploads))

\* C24 for the jobs whose upload response said PROCESSING (a supplementary
\* check, it holds): each of them is eventually removed
C24_ProcessingJobsEventuallyRetired ==
  \A id \in JobIds :
     ([upload_id |-> id, status |-> "PROCESSING"] \in
         { activeUploads[k] : k \in 1..Len(activeUploads) })
       ~> (id \notin Ids(activeUploads))

\* C25: the aggregate holds only chunks of files uploaded after the last
\* reset by pickDocument or uploadFiles.  A reset empties the aggregate and
\* the preview chunks of a job arrive when its file is uploaded, so final
\* chunks of a job without its preview chunks are chunks of a file uploaded
\* before the reset.
C25_NoChunksFromBeforeReset ==
  \A id \in JobIds :
     Positions(FinalChunks(id)[1]) # {} => Positions(PreviewChunks(id)[1]) # {}

\* C26: at most one poll timer is armed at any time: a change of the active
\* set clears the previous timer before the new one is created, and the
\* unmount clears the last one.
C26_AtMostOneTimer ==
  /\ Len(timers) <= 1
  /\ [][ timers' # timers
          => \/ timers' = <<>>
             \/ timers' = <<activeUploads'>> /\ activeUploads' # <<>> ]_vars

\* C26 witness: the timer was armed for a batch of two jobs and re-armed for
\* the one that is left after the other completed
C26_TimerRearmedForRemainingJob ==
  /\ Len(timers) = 1
  /\ Len(timers[1]) = 1
  /\ Len(activeUploads) = 1
  /\ Len(processedChunks) = 3

\* C27: the "Processing Failed" alert is raised once per job reported FAILED:
\* a tick segment raises it only for a job that was not reported FAILED to a
\* tick before.
C27_FailedAlertOncePerJob ==
  [][ \A t \in BagToSet(ticks) :
        statusResponse(t, "FAILED") => backend[t.snap[t.idx].upload_id] # "FAILED" ]_vars

\* C28: uploading is true exactly while a batch of uploadFiles is in
\* progress, it is false after the batch ended with a success or with a
\* failure, and a batch starts only while no batch is in progress.
C28_UploadingIffBatchInProgress ==
  /\ uploading = (up.pc = "post")
  /\ [][ /\ uploadFilesStart => (up.pc = "idle" /\ up'.pc = "post" /\ uploading')
         /\ (up.pc = "post" /\ up'.pc = "idle")
              => /\ ~uploading'
                 /\ \/ \E status \in UploadStatuses : uploadResponse(status)
                    \/ \E detail \in BOOLEAN : uploadCatch(detail) ]_vars

\* C28 witness: a second batch is in progress after the first one ended
C28_SecondBatchInProgress ==
  /\ uploading
  /\ up.pc = "post"
  /\ up.newUploads = <<>>
  /\ nextId > 1

\* C29: the jobs registered when a batch finishes belong to files of the
\* selection the screen shows then: every file of the batch is in the list,
\* or the list is the batch without the files the user removed meanwhile.
C29_RegisteredJobsOfCurrentSelection ==
  [][ \A status \in UploadStatuses :
        (uploadResponse(status) /\ up.i + 1 = Len(up.batch))
          => \/ Uris(up.batch) \subseteq Uris(files')
             \/ Embeds(files', up.batch) ]_vars

\* C30: the success indicator is on only when no job of the batch is still
\* being processed and none was reported FAILED.
C30_SuccessOnlyWhenAllCompleted ==
  uploadSuccess = "true"
    => /\ \A k \in 1..Len(activeUploads) :
            backend[activeUploads[k].upload_id] # "PROCESSING"
       /\ \A id \in JobIds : processingStatuses[id] # "FAILED"

====
